---- MODULE Spec2Model ----
(***************************************************************************)
(* TournamentManager of src/audioManager.ts (lines 487-840): users, the    *)
(* wallet ledger, two-player matches, the match timer and the developer    *)
(* wallet.  JavaScript runs every handler to completion, so each public    *)
(* method and each timer callback is one atomic action.                    *)
(***************************************************************************)
EXTENDS Integers, Sequences, FiniteSets, TLC

\* ---- bound of the model ----
\* calls that change the manager's state, counted over the whole run
MaxCalls == 6
\* generateOTP calls over the whole run, and the time after which the clock
\* of the OTP specification stops
MaxOtps == 3
MaxNow == 500

\* ---- program constants ----
ENTRY_FEE == 10
PRIZE_POOL == 20
WINNER_PAYOUT == 16
SERVER_FEE == 4
STARTING_BONUS == 100

\* typeof window !== 'undefined': the manager runs in a browser ('use client')
HasWindow == TRUE

\* the empty string / undefined, both falsy where the code tests an id
NoId == 0
\* an id that no user has (users.get gives undefined)
UnknownId == -1
\* an optional Date field that is undefined
NoDate == -1
\* what external callers pass to updateUserWallet: <<amount, type>>
WalletCalls == {<<-105, "withdrawal">>, <<-95, "withdrawal">>, <<10, "deposit">>}

VARIABLES
  users,                  \* Map<string, User>
  matches,                \* Map<string, Match>
  transactions,           \* Map<string, Transaction>, keyed by transaction id
  developerWalletBalance, \* number
  storage,                \* localStorage: the four keys saveToStorage writes
  timers,                 \* match ids with a pending setTimeout callback
  now,                    \* the wall clock read by new Date()
  feeCredits,             \* history: per match, how often line 684 ran for it
  endCalled,              \* history: <<match, kind>> for each endMatch call on
                          \* a match that had left waiting; kind tells whether
                          \* winnerId named one of its players
  lastCall,               \* history: the last call, its arguments and what it
                          \* returned
  calls,                  \* number of calls so far that changed the state
  otps,                   \* OTPManager.otps: Map<contact, {code, expiry, verified}>
  issued,                 \* history: per contact the code the latest generateOTP
                          \* returned, when, and how many it has had
  okGen                   \* history: <<contact, n>> for which verifyOTP returned
                          \* true while the contact's n-th code was its latest

vars == <<users, matches, transactions, developerWalletBalance, storage,
          timers, now, feeCredits, endCalled, lastCall, calls,
          otps, issued, okGen>>

otpVars == <<otps, issued, okGen>>

managerVars == <<users, matches, transactions, developerWalletBalance, storage,
                 timers, feeCredits, endCalled, calls>>

\* the manager's fields, gathered so that a method can be applied to the
\* result of another (createMatch calls updateUserWallet, and so on)
Mem == [users |-> users, matches |-> matches, transactions |-> transactions,
        developerWalletBalance |-> developerWalletBalance,
        storage |-> storage, timers |-> timers, feeCredits |-> feeCredits]

Extend(f, k, v) == [x \in (DOMAIN f) \cup {k} |-> IF x = k THEN v ELSE f[x]]

\* ---- persistence ----
\* JSON.stringify of a Date gives its ISO-8601 string; an undefined field is dropped
JSONDate(t) == IF t = NoDate THEN <<>> ELSE <<"iso", t>>

SerializeUser(u) == [u EXCEPT !.createdAt = JSONDate(u.createdAt)]

SerializeMatch(m) == [m EXCEPT !.startTime = JSONDate(m.startTime),
                               !.endTime = JSONDate(m.endTime)]

SerializeTransaction(t) == [t EXCEPT !.timestamp = JSONDate(t.timestamp)]

saveToStorage(s) ==
  IF HasWindow
  THEN [s EXCEPT !.storage =
          [tournament_users |-> <<[k \in DOMAIN s.users |-> SerializeUser(s.users[k])]>>,
           tournament_matches |-> <<[k \in DOMAIN s.matches |-> SerializeMatch(s.matches[k])]>>,
           tournament_transactions |->
             <<[k \in DOMAIN s.transactions |-> SerializeTransaction(s.transactions[k])]>>,
           developer_wallet |-> <<[str |-> s.developerWalletBalance]>>]]
  ELSE s

\* new Date(isoString) gives back the instant the string was written from
ParseDate(j) == j[2]

ParseOptionalDateDropped(j) == NoDate

\* v.startTime ? new Date(v.startTime) : undefined
ParseOptionalDate(j) == IF j # <<>> THEN ParseDate(j) ELSE NoDate

DeserializeUser(v) == [v EXCEPT !.createdAt = ParseDate(v.createdAt)]

DeserializeMatch(v) == [v EXCEPT !.startTime = ParseOptionalDate(v.startTime),
                                 !.endTime = ParseOptionalDate(v.endTime)]

DeserializeTransaction(v) == [v EXCEPT !.timestamp = ParseDate(v.timestamp)]

\* a key that is not in localStorage leaves its field alone
loadFromStorage(s) ==
  IF HasWindow
  THEN LET item == s.storage
       IN [s EXCEPT
             !.users =
               IF item.tournament_users # <<>>
               THEN [k \in DOMAIN item.tournament_users[1] |->
                       DeserializeUser(item.tournament_users[1][k])]
               ELSE @,
             !.matches =
               IF item.tournament_matches # <<>>
               THEN [k \in DOMAIN item.tournament_matches[1] |->
                       DeserializeMatch(item.tournament_matches[1][k])]
               ELSE @,
             !.transactions =
               IF item.tournament_transactions # <<>>
               THEN [k \in DOMAIN item.tournament_transactions[1] |->
                       DeserializeTransaction(item.tournament_transactions[1][k])]
               ELSE @,
             !.developerWalletBalance =
               IF item.developer_wallet # <<>>
               THEN item.developer_wallet[1].str
               ELSE @]
  ELSE s

\* ---- the ledger ----
\* generateId() for a transaction: an id no transaction has yet (the user's
\* id and the number of the transaction among that user's)
generateId(s, userId) ==
  <<userId, Cardinality({k \in DOMAIN s.transactions : k[1] = userId}) + 1>>

InsufficientFundsOff(balanceAfter) == FALSE

InsufficientFunds(balanceAfter) == balanceAfter < 0

\* returns [st |-> the fields afterwards, ret |-> the boolean returned]
updateUserWallet(s, userId, amount, type, matchId) ==
  IF userId \notin DOMAIN s.users THEN [st |-> s, ret |-> FALSE]
  ELSE
    LET balanceBefore == s.users[userId].walletBalance
        balanceAfter == balanceBefore + amount
    IN IF InsufficientFunds(balanceAfter) THEN [st |-> s, ret |-> FALSE]
       ELSE
         LET transaction == [userId |-> userId, type |-> type, amount |-> amount,
                             balanceBefore |-> balanceBefore,
                             balanceAfter |-> balanceAfter,
                             matchId |-> matchId, timestamp |-> now,
                             status |-> "completed"]
             s1 == [s EXCEPT !.users[userId].walletBalance = balanceAfter,
                             !.transactions =
                                Extend(@, generateId(s, userId), transaction)]
         IN [st |-> saveToStorage(s1), ret |-> TRUE]

\* ---- createUser ----
NewUser == [walletBalance |-> STARTING_BONUS, isVerified |-> FALSE,
            createdAt |-> now, gamesPlayed |-> 0, gamesWon |-> 0,
            winRate |-> [won |-> 0, played |-> 1], totalEarnings |-> 0]

createUser(s, id) == saveToStorage([s EXCEPT !.users = Extend(@, id, NewUser)])

\* ---- createMatch ----
CreateMatchRejectedNoFunds(s, player1Id) == player1Id \notin DOMAIN s.users

CreateMatchRejected(s, player1Id) ==
  \/ player1Id \notin DOMAIN s.users
  \/ s.users[player1Id].walletBalance < ENTRY_FEE

NewMatch(player1Id) ==
  [player1Id |-> player1Id, player2Id |-> NoId, entryFee |-> ENTRY_FEE,
   prizePool |-> PRIZE_POOL, winnerPayout |-> WINNER_PAYOUT,
   serverFee |-> SERVER_FEE, status |-> "waiting", winnerId |-> NoId,
   startTime |-> NoDate, endTime |-> NoDate]

\* returns [st, ret]: ret is "match" (the new match is returned) or "error"
\* (it throws); id is the value generateId() gives the new match
createMatch(s, id, player1Id) ==
  IF CreateMatchRejected(s, player1Id) THEN [st |-> s, ret |-> "error"]
  ELSE
    LET s1 == updateUserWallet(s, player1Id, -ENTRY_FEE, "entry_fee", id).st
        s2 == [s1 EXCEPT !.matches = Extend(@, id, NewMatch(player1Id))]
    IN [st |-> saveToStorage(s2), ret |-> "match"]

\* ---- joinMatch ----
JoinRejectedNoStatus(s, matchId, player2Id) ==
  \/ matchId \notin DOMAIN s.matches
  \/ player2Id \notin DOMAIN s.users
  \/ s.users[player2Id].walletBalance < ENTRY_FEE
  \/ s.matches[matchId].player1Id = player2Id

JoinRejectedNoSelf(s, matchId, player2Id) ==
  \/ matchId \notin DOMAIN s.matches
  \/ player2Id \notin DOMAIN s.users
  \/ s.matches[matchId].status # "waiting"
  \/ s.users[player2Id].walletBalance < ENTRY_FEE

JoinRejected(s, matchId, player2Id) ==
  \/ matchId \notin DOMAIN s.matches
  \/ player2Id \notin DOMAIN s.users
  \/ s.matches[matchId].status # "waiting"
  \/ s.users[player2Id].walletBalance < ENTRY_FEE
  \/ s.matches[matchId].player1Id = player2Id

startMatchTimerNever(s, matchId) == s

\* setTimeout(callback, MATCH_DURATION * 1000)
startMatchTimer(s, matchId) == [s EXCEPT !.timers = @ \cup {matchId}]

joinMatch(s, matchId, player2Id) ==
  IF JoinRejected(s, matchId, player2Id) THEN [st |-> s, ret |-> "false"]
  ELSE
    LET s1 == updateUserWallet(s, player2Id, -ENTRY_FEE, "entry_fee", matchId).st
        s2 == [s1 EXCEPT !.matches[matchId].player2Id = player2Id,
                         !.matches[matchId].status = "active",
                         !.matches[matchId].startTime = now]
    IN [st |-> saveToStorage(startMatchTimer(s2, matchId)), ret |-> "true"]

\* ---- endMatch ----
EndMatchRejectedNoStatus(s, matchId) == matchId \notin DOMAIN s.matches

EndMatchRejected(s, matchId) ==
  \/ matchId \notin DOMAIN s.matches
  \/ s.matches[matchId].status # "active"

payWinnerPrizePool(s, winnerId, matchId) ==
  updateUserWallet(s, winnerId, PRIZE_POOL, "winner_payout", matchId).st

payWinner(s, winnerId, matchId) ==
  updateUserWallet(s, winnerId, WINNER_PAYOUT, "winner_payout", matchId).st

\* player.gamesPlayed++; player.winRate = (gamesWon / gamesPlayed) * 100
updatePlayerStats(s, playerId) ==
  IF playerId \in DOMAIN s.users
  THEN [s EXCEPT !.users[playerId].gamesPlayed = @ + 1,
                 !.users[playerId].winRate =
                    [won |-> s.users[playerId].gamesWon,
                     played |-> s.users[playerId].gamesPlayed + 1]]
  ELSE s

FeeCreditsOf(s, matchId) ==
  IF matchId \in DOMAIN s.feeCredits THEN s.feeCredits[matchId] ELSE 0

endMatch(s, matchId, winnerId) ==
  IF EndMatchRejected(s, matchId) THEN s
  ELSE
    LET match == s.matches[matchId]
        s1 == [s EXCEPT !.matches[matchId].status = "completed",
                        !.matches[matchId].endTime = now]
        s2 == IF winnerId # NoId
              THEN LET s2a == [s1 EXCEPT !.matches[matchId].winnerId = winnerId]
                   IN IF winnerId \in DOMAIN s2a.users
                      THEN LET s2b == payWinner(s2a, winnerId, matchId)
                           IN [s2b EXCEPT
                                 !.users[winnerId].gamesWon = @ + 1,
                                 !.users[winnerId].totalEarnings =
                                    @ + WINNER_PAYOUT - ENTRY_FEE]
                      ELSE s2a
              ELSE s1
        s3 == updatePlayerStats(s2, match.player1Id)
        s4 == updatePlayerStats(s3, match.player2Id)
        s5 == [s4 EXCEPT !.developerWalletBalance = @ + SERVER_FEE,
                         !.feeCredits = Extend(@, matchId, FeeCreditsOf(s4, matchId) + 1)]
    IN saveToStorage(s5)

\* ---- the callback startMatchTimer schedules ----
timerCallbackUnguarded(s, matchId) ==
  IF matchId \in DOMAIN s.matches
  THEN endMatch([s EXCEPT !.matches[matchId].status = "timeout"], matchId, NoId)
  ELSE s

timerCallback(s, matchId) ==
  IF matchId \in DOMAIN s.matches /\ s.matches[matchId].status = "active"
  THEN endMatch([s EXCEPT !.matches[matchId].status = "timeout"], matchId, NoId)
  ELSE s

\* ---- the state machine ----
\* a call's or callback's effect on the manager's fields
\* ---- admin functions (developer access only) ----
DEVELOPER_CONTACTS == {"8976096360", "deshpandekirti641@gmail.com"}

\* 24 * 60 * 60 * 1000 ms; the model's clock counts seconds
DAY == 86400

verifyDeveloperAccessAll(contact) == TRUE

verifyDeveloperAccess(contact) == contact \in DEVELOPER_CONTACTS

getDeveloperWalletBalance(s, contact) ==
  IF ~verifyDeveloperAccess(contact) THEN 0 ELSE s.developerWalletBalance

RECURSIVE SumOver(_, _)
SumOver(f, K) ==
  IF K = {} THEN 0
  ELSE LET k == CHOOSE x \in K : TRUE IN f[k] + SumOver(f, K \ {k})

\* endTime - startTime in seconds, 0 when either is missing
MatchDuration(m) ==
  IF m.endTime # NoDate /\ m.startTime # NoDate
  THEN m.endTime - m.startTime ELSE 0

\* null is <<>>, an AdminStats object is <<stats>>; the average is kept as
\* the sum and the number it is divided by
getAdminStats(s, contact) ==
  IF ~verifyDeveloperAccess(contact) THEN <<>>
  ELSE
    LET today == now - (now % DAY)
        thisWeek == today - 7 * DAY
        thisMonth == today - 30 * DAY
        completedMatches ==
          {m \in DOMAIN s.matches : s.matches[m].status = "completed"}
        serverFeeTransactions ==
          {k \in DOMAIN s.transactions : s.transactions[k].type = "server_fee"}
    IN <<[totalUsers |-> Cardinality(DOMAIN s.users),
          activeMatches |->
            Cardinality({m \in DOMAIN s.matches : s.matches[m].status = "active"}),
          completedMatches |-> Cardinality(completedMatches),
          totalRevenue |-> s.developerWalletBalance,
          dailyRevenue |->
            SumOver([k \in serverFeeTransactions |-> s.transactions[k].amount],
                    {k \in serverFeeTransactions :
                       s.transactions[k].timestamp >= today}),
          averageMatchDuration |->
            IF completedMatches # {}
            THEN [sum |-> SumOver([m \in completedMatches |->
                                     MatchDuration(s.matches[m])],
                                  completedMatches),
                  count |-> Cardinality(completedMatches)]
            ELSE [sum |-> 0, count |-> 1],
          userRegistrations |->
            [today |-> Cardinality({u \in DOMAIN s.users :
                                      s.users[u].createdAt >= today}),
             thisWeek |-> Cardinality({u \in DOMAIN s.users :
                                         s.users[u].createdAt >= thisWeek}),
             thisMonth |-> Cardinality({u \in DOMAIN s.users :
                                          s.users[u].createdAt >= thisMonth})]]>>

Commit(s) ==
  /\ users' = s.users
  /\ matches' = s.matches
  /\ transactions' = s.transactions
  /\ developerWalletBalance' = s.developerWalletBalance
  /\ storage' = s.storage
  /\ timers' = s.timers
  /\ feeCredits' = s.feeCredits
  /\ UNCHANGED now
  /\ UNCHANGED otpVars

\* a call that changed something counts towards MaxCalls
Count(s) == calls' = IF s = Mem THEN calls ELSE calls + 1

\* op(a, b) returned ret; NoId stands for an argument the call does not have
Called(op, a, b, ret) == [op |-> op, a |-> a, b |-> b, ret |-> ret]

NoStorage == [tournament_users |-> <<>>, tournament_matches |-> <<>>,
              tournament_transactions |-> <<>>, developer_wallet |-> <<>>]

\* the constructor: loadFromStorage() finds no key, every field keeps its initializer
Init ==
  /\ users = <<>>
  /\ matches = <<>>
  /\ transactions = <<>>
  /\ developerWalletBalance = 0
  /\ storage = NoStorage
  /\ timers = {}
  /\ now = 0
  /\ feeCredits = <<>>
  /\ endCalled = {}
  /\ lastCall = Called("new", NoId, NoId, "void")
  /\ calls = 0
  /\ otps = <<>>
  /\ issued = <<>>
  /\ okGen = {}

\* generateId() for a user or a match: an id none has yet
NextUserId == Cardinality(DOMAIN users) + 1
NextMatchId == Cardinality(DOMAIN matches) + 1

\* ids callers may pass: the empty id, an id nobody has, and the existing ones
UserArgs == {NoId, UnknownId} \cup DOMAIN users
MatchArgs == {UnknownId} \cup DOMAIN matches

CreateUser ==
  /\ calls < MaxCalls
  /\ LET s == createUser(Mem, NextUserId)
     IN Commit(s) /\ Count(s)
  /\ lastCall' = Called("createUser", NoId, NoId, "user")
  /\ UNCHANGED endCalled

UpdateUserWallet(userId, amount, type) ==
  /\ calls < MaxCalls
  /\ LET r == updateUserWallet(Mem, userId, amount, type, NoId)
     IN /\ Commit(r.st) /\ Count(r.st)
        /\ lastCall' = Called("updateUserWallet", userId, amount,
                             IF r.ret THEN "true" ELSE "false")
  /\ UNCHANGED endCalled

CreateMatch(player1Id) ==
  /\ calls < MaxCalls
  /\ LET r == createMatch(Mem, NextMatchId, player1Id)
     IN /\ Commit(r.st) /\ Count(r.st)
        /\ lastCall' = Called("createMatch", player1Id, NoId, r.ret)
  /\ UNCHANGED endCalled

JoinMatch(matchId, player2Id) ==
  /\ calls < MaxCalls
  /\ LET r == joinMatch(Mem, matchId, player2Id)
     IN /\ Commit(r.st) /\ Count(r.st)
        /\ lastCall' = Called("joinMatch", matchId, player2Id, r.ret)
  /\ UNCHANGED endCalled

\* whether endMatch(matchId, winnerId) names one of the match's players
EndKind(matchId, winnerId) ==
  IF winnerId \in {matches[matchId].player1Id, matches[matchId].player2Id}
  THEN "player" ELSE "other"

EndMatch(matchId, winnerId) ==
  /\ calls < MaxCalls
  /\ LET s == endMatch(Mem, matchId, winnerId)
     IN Commit(s) /\ Count(s)
  /\ lastCall' = Called("endMatch", matchId, winnerId, "void")
  /\ endCalled' = IF matchId \in DOMAIN matches /\ matches[matchId].status # "waiting"
                  THEN endCalled \cup {<<matchId, EndKind(matchId, winnerId)>>}
                  ELSE endCalled

\* a pending timeout callback runs; it is not a call and is not counted
TimerFire(matchId) ==
  /\ matchId \in timers
  /\ Commit(timerCallback([Mem EXCEPT !.timers = @ \ {matchId}], matchId))
  /\ lastCall' = Called("timer", matchId, NoId, "void")
  /\ UNCHANGED <<endCalled, calls>>

\* the constructor's setInterval callback (line 516). When the stored
\* snapshot is already that of the fields it writes the same values again,
\* which is a stuttering step; only the other case is a step of its own.
AutoSave ==
  /\ storage # saveToStorage(Mem).storage
  /\ Commit(saveToStorage(Mem))
  /\ lastCall' = Called("autoSave", NoId, NoId, "void")
  /\ UNCHANGED <<endCalled, calls>>

Next ==
  \/ CreateUser
  \/ \E u \in UserArgs, c \in WalletCalls : UpdateUserWallet(u, c[1], c[2])
  \/ \E u \in UserArgs : CreateMatch(u)
  \/ \E m \in MatchArgs, u \in UserArgs : JoinMatch(m, u)
  \/ \E m \in MatchArgs, w \in UserArgs : EndMatch(m, w)
  \/ \E m \in DOMAIN matches : TimerFire(m)
  \/ AutoSave

\* Dates are recorded and never read by these operations, so the clock stands
\* still in Spec
Spec == Init /\ [][Next]_vars

\* ---- OTPManager ----
\* 5 * 60 * 1000 ms, in seconds
OTP_TTL == 300

\* the contacts that ask for a code, the codes Math.random can give (the two
\* ends of 100000..999999) and the codes a caller may try
OtpContacts == {1, 2}
OtpCodes == {100000, 999999}
TriedCodes == OtpCodes \cup {123456}

ExpiredNever(t, expiry) == FALSE

\* new Date() > otpData.expiry
Expired(t, expiry) == t > expiry

generateOTP(o, contact, code, t) ==
  Extend(o, contact, [code |-> code, expiry |-> t + OTP_TTL, verified |-> FALSE])

\* returns [st |-> otps afterwards, ret |-> the boolean returned]
verifyOTP(o, contact, code, t) ==
  IF contact \notin DOMAIN o THEN [st |-> o, ret |-> FALSE]
  ELSE IF Expired(t, o[contact].expiry)
       THEN [st |-> [c \in DOMAIN o \ {contact} |-> o[c]], ret |-> FALSE]
       ELSE IF o[contact].code = code
            THEN [st |-> [o EXCEPT ![contact].verified = TRUE], ret |-> TRUE]
            ELSE [st |-> o, ret |-> FALSE]

isVerified(o, contact) == contact \in DOMAIN o /\ o[contact].verified = TRUE

\* how many codes generateOTP has given out
OtpsIssued == SumOver([c \in DOMAIN issued |-> issued[c].n], DOMAIN issued)

GenerateOTP(contact, code) ==
  /\ OtpsIssued < MaxOtps
  /\ otps' = generateOTP(otps, contact, code, now)
  /\ issued' = Extend(issued, contact,
                      [code |-> code, at |-> now,
                       n |-> IF contact \in DOMAIN issued
                             THEN issued[contact].n + 1 ELSE 1])
  /\ lastCall' = Called("generateOTP", contact, code, "code")
  /\ UNCHANGED <<okGen, now, managerVars>>

VerifyOTP(contact, code) ==
  /\ LET r == verifyOTP(otps, contact, code, now)
     IN /\ otps' = r.st
        /\ lastCall' = Called("verifyOTP", contact, code,
                             IF r.ret THEN "true" ELSE "false")
        /\ okGen' = IF r.ret /\ contact \in DOMAIN issued
                    THEN okGen \cup {<<contact, issued[contact].n>>}
                    ELSE okGen
  /\ UNCHANGED <<issued, now, managerVars>>

\* time passes, a hundred seconds at a time
Tick ==
  /\ now < MaxNow
  /\ now' = now + 100
  /\ lastCall' = Called("tick", NoId, NoId, "void")
  /\ UNCHANGED <<otpVars, managerVars>>

NextOTP ==
  \/ \E c \in OtpContacts, code \in OtpCodes : GenerateOTP(c, code)
  \/ \E c \in OtpContacts, code \in TriedCodes : VerifyOTP(c, code)
  \/ Tick

\* OTPManager's static state is on its own; the manager is left as constructed
SpecOTP == Init /\ [][NextOTP]_vars

\* every id a match can have within the bound
MatchIds == 1..MaxCalls

\* setTimeout (line 691) runs its callback once the delay has passed: a
\* scheduled callback is not postponed for ever.
SpecLive == Spec /\ \A m \in MatchIds : WF_vars(TimerFire(m))

\* ---- what the ledger recorded for a match ----
TxOf(matchId, type) ==
  {k \in DOMAIN transactions :
     transactions[k].matchId = matchId /\ transactions[k].type = type}

RECURSIVE SumAmounts(_)
SumAmounts(K) ==
  IF K = {} THEN 0
  ELSE LET k == CHOOSE x \in K : TRUE
       IN transactions[k].amount + SumAmounts(K \ {k})

EntryFeesDebited(matchId) == 0 - SumAmounts(TxOf(matchId, "entry_fee"))
PayoutCredited(matchId) == SumAmounts(TxOf(matchId, "winner_payout"))
PayoutCredits(matchId) == Cardinality(TxOf(matchId, "winner_payout"))
FeeCredits(matchId) == IF matchId \in DOMAIN feeCredits THEN feeCredits[matchId] ELSE 0
FeeCredited(matchId) == SERVER_FEE * FeeCredits(matchId)

\* C1: after any sequence of createUser, updateUserWallet (any signed amount),
\* createMatch, joinMatch, endMatch and timer firings, every user's
\* walletBalance is >= 0.
C1_BalanceNonNegative == \A u \in DOMAIN users : users[u].walletBalance >= 0

\* a withdrawal has brought a balance below the entry fee, and a further
\* withdrawal from it was refused
C1_Witness ==
  \E u \in DOMAIN users :
    /\ users[u].walletBalance < ENTRY_FEE
    /\ lastCall.op = "updateUserWallet" /\ lastCall.a = u
    /\ lastCall.b < 0 /\ lastCall.ret = "false"

\* C2 as stated: for every match whose status is completed or timeout, the
\* entry fees debited for it equal the winner payout credited for it (if any)
\* plus the server fee credited for it.
C2_ClosedLoop ==
  \A m \in DOMAIN matches :
    matches[m].status \in {"completed", "timeout"} =>
      EntryFeesDebited(m) = PayoutCredited(m) + FeeCredited(m)

\* C3: for every match, under every interleaving of any number of endMatch
\* calls and the match's timer callback, the winner payout is credited at most
\* once and the developer wallet fee is credited at most once.
C3_ResolvedAtMostOnce ==
  \A m \in DOMAIN matches : PayoutCredits(m) <= 1 /\ FeeCredits(m) <= 1

\* endMatch paid a winner, the timer callback has run as well, and endMatch
\* has just been called once more for the match
C3_Witness ==
  \E m \in DOMAIN matches :
    /\ m \notin timers
    /\ matches[m].status = "completed"
    /\ PayoutCredits(m) = 1 /\ FeeCredits(m) = 1
    /\ lastCall.op = "endMatch" /\ lastCall.a = m

\* C4 as stated: once endMatch(matchId, winnerId), winnerId a player of the
\* match, has been called for a match that was active, be it twice or together
\* with the timer callback in either order (and endMatch was not called for it
\* in any other way), there is exactly one winner_payout credit and exactly one
\* server-fee credit for the match.
C4_ExactlyOnePayoutAndFee ==
  \A m \in DOMAIN matches :
    (<<m, "player">> \in endCalled /\ <<m, "other">> \notin endCalled) =>
      PayoutCredits(m) = 1 /\ FeeCredits(m) = 1

\* C5 as stated: when an active match's timer fires with no endMatch having
\* been called, the status becomes timeout, no winner payout is credited, the
\* developer wallet grows by the server fee and both players' gamesPlayed
\* grow by one.
C5_TimerStep ==
  \A m \in DOMAIN matches :
    (lastCall' = Called("timer", m, NoId, "void") /\ m \in timers
       /\ matches[m].status = "active" /\ <<m, "player">> \notin endCalled
       /\ <<m, "other">> \notin endCalled) =>
      /\ matches'[m].status = "timeout"
      /\ transactions' = transactions
      /\ developerWalletBalance' = developerWalletBalance + SERVER_FEE
      /\ \A p \in {matches[m].player1Id, matches[m].player2Id} :
           users'[p].gamesPlayed = users[p].gamesPlayed + 1

C5_TimeoutResolves == [][C5_TimerStep]_vars

\* the transactions a step appended
NewTx == {k \in DOMAIN transactions' : k \notin DOMAIN transactions}

\* C6: with A and B at balance 100, createMatch(A) leaves A at 90 with exactly
\* one entry_fee transaction and a waiting match; joinMatch(m, B) leaves B at
\* 90 and the match active; endMatch(m, A) leaves A at 106, the developer
\* wallet 4 higher and the match completed.
C6_ScenarioStep ==
  /\ \A A \in DOMAIN users :
       (lastCall'.op = "createMatch" /\ lastCall'.a = A
          /\ users[A].walletBalance = 100) =>
         /\ users'[A].walletBalance = 90
         /\ Cardinality(NewTx) = 1
         /\ \A k \in NewTx : /\ transactions'[k].type = "entry_fee"
                              /\ transactions'[k].userId = A
                              /\ transactions'[k].amount = -10
                              /\ transactions'[k].matchId = NextMatchId
         /\ DOMAIN matches' = DOMAIN matches \cup {NextMatchId}
         /\ matches'[NextMatchId].status = "waiting"
         /\ matches'[NextMatchId].player1Id = A
  /\ \A m \in DOMAIN matches, B \in DOMAIN users :
       (lastCall'.op = "joinMatch" /\ lastCall'.a = m /\ lastCall'.b = B
          /\ matches[m].status = "waiting" /\ matches[m].player1Id # B
          /\ users[B].walletBalance = 100) =>
         /\ users'[B].walletBalance = 90
         /\ matches'[m].status = "active"
         /\ matches'[m].player2Id = B
  /\ \A m \in DOMAIN matches, A \in DOMAIN users :
       (lastCall'.op = "endMatch" /\ lastCall'.a = m /\ lastCall'.b = A
          /\ matches[m].status = "active" /\ matches[m].player1Id = A
          /\ users[A].walletBalance = 90) =>
         /\ users'[A].walletBalance = 106
         /\ developerWalletBalance' = developerWalletBalance + 4
         /\ matches'[m].status = "completed"

C6_Scenario == [][C6_ScenarioStep]_vars

\* the end of the scenario: A won the match it created against B
C6_Witness ==
  \E m \in DOMAIN matches :
    LET A == matches[m].player1Id
        B == matches[m].player2Id
    IN /\ matches[m].status = "completed" /\ matches[m].winnerId = A
       /\ lastCall = Called("endMatch", m, A, "void")
       /\ users[A].walletBalance = 106 /\ users[B].walletBalance = 90
       /\ developerWalletBalance = 4
       /\ Cardinality(DOMAIN transactions) = 3

\* C7: of any number of joinMatch calls on the same waiting match at most one
\* returns true, the match's player2Id is assigned once and never changes
\* afterwards, and only the successful joiner is debited an entry fee for it.
C7_JoinStep ==
  \A m \in DOMAIN matches :
    /\ (lastCall'.op = "joinMatch" /\ lastCall'.a = m /\ lastCall'.ret = "true") =>
         /\ matches[m].status = "waiting" /\ matches[m].player2Id = NoId
         /\ matches'[m].status # "waiting" /\ matches'[m].player2Id = lastCall'.b
    /\ matches[m].status # "waiting" => matches'[m].status # "waiting"
    /\ matches[m].player2Id # NoId => matches'[m].player2Id = matches[m].player2Id

C7_OnlyJoinerDebited ==
  \A m \in DOMAIN matches :
    LET others == {k \in TxOf(m, "entry_fee") :
                     transactions[k].userId # matches[m].player1Id}
    IN /\ \A k \in others : transactions[k].userId = matches[m].player2Id
       /\ Cardinality(others) = IF matches[m].player2Id = NoId THEN 0 ELSE 1

C7_JoinOnce == [][C7_JoinStep]_vars /\ []C7_OnlyJoinerDebited

\* a third user who could pay has just been refused a match already joined
C7_Witness ==
  \E m \in DOMAIN matches, u \in DOMAIN users :
    /\ lastCall = Called("joinMatch", m, u, "false")
    /\ matches[m].player2Id \notin {NoId, u} /\ matches[m].player1Id # u
    /\ matches[m].status = "active"
    /\ users[u].walletBalance >= ENTRY_FEE

\* C8: createMatch for a user who does not exist or whose balance is below
\* the entry fee fails with an error and changes nothing; and a match exists
\* only if its creator's entry_fee debit was applied.
C8_CreateStep ==
  \A p \in UserArgs :
    (lastCall'.op = "createMatch" /\ lastCall'.a = p
       /\ (p \notin DOMAIN users \/ users[p].walletBalance < ENTRY_FEE)) =>
      /\ lastCall'.ret = "error"
      /\ UNCHANGED <<users, matches, transactions, developerWalletBalance,
                     storage, timers>>

C8_CreatorDebited ==
  \A m \in DOMAIN matches :
    \E k \in TxOf(m, "entry_fee") :
      /\ transactions[k].userId = matches[m].player1Id
      /\ transactions[k].amount = -ENTRY_FEE
      /\ transactions[k].balanceAfter = transactions[k].balanceBefore - ENTRY_FEE

C8_CreateMatchAllOrNothing == [][C8_CreateStep]_vars /\ []C8_CreatorDebited

\* createMatch has just failed for an existing user with less than the fee
C8_Witness ==
  \E p \in DOMAIN users :
    /\ lastCall = Called("createMatch", p, NoId, "error")
    /\ users[p].walletBalance < ENTRY_FEE
    /\ matches = <<>>

\* C9: joinMatch returns false and leaves the matches, every balance, the
\* transactions and the timers unchanged whenever the match does not exist, is
\* not waiting, the joiner does not exist, has less than the entry fee, or is
\* player1 of the match.
C9_JoinStep ==
  \A m \in MatchArgs, u \in UserArgs :
    (lastCall'.op = "joinMatch" /\ lastCall'.a = m /\ lastCall'.b = u
       /\ \/ m \notin DOMAIN matches
          \/ matches[m].status # "waiting"
          \/ u \notin DOMAIN users
          \/ users[u].walletBalance < ENTRY_FEE
          \/ matches[m].player1Id = u) =>
      /\ lastCall'.ret = "false"
      /\ UNCHANGED <<users, matches, transactions, developerWalletBalance,
                     storage, timers>>

C9_FailedJoinChangesNothing == [][C9_JoinStep]_vars

\* player1 has just been refused its own waiting match, which it could pay
C9_Witness ==
  \E m \in DOMAIN matches :
    /\ lastCall = Called("joinMatch", m, matches[m].player1Id, "false")
    /\ matches[m].status = "waiting"
    /\ users[matches[m].player1Id].walletBalance >= ENTRY_FEE

\* C10 as stated: a winner_payout for a match is only ever credited to, and
\* winnerId, gamesWon and totalEarnings only ever updated for, a user who is
\* player1 or player2 of the match.
C10_PayoutRecipients ==
  \A m \in DOMAIN matches :
    \A k \in TxOf(m, "winner_payout") :
      transactions[k].userId \in {matches[m].player1Id, matches[m].player2Id}

C10_EndStep ==
  \A m \in DOMAIN matches, w \in UserArgs :
    (lastCall'.op = "endMatch" /\ lastCall'.a = m /\ lastCall'.b = w
       /\ w \notin {matches[m].player1Id, matches[m].player2Id}) =>
      /\ matches'[m].winnerId = matches[m].winnerId
      /\ \A u \in DOMAIN users :
           /\ users'[u].walletBalance = users[u].walletBalance
           /\ users'[u].gamesWon = users[u].gamesWon
           /\ users'[u].totalEarnings = users[u].totalEarnings

C10_OnlyPlayersWin == [][C10_EndStep]_vars /\ []C10_PayoutRecipients

\* C11: a match's status only changes along waiting -> active, active ->
\* completed and active -> timeout; a completed, timeout or cancelled match
\* keeps its status under any later joinMatch, endMatch or timer firing.
C11_StatusStep ==
  \A m \in DOMAIN matches :
    /\ m \in DOMAIN matches'
    /\ \/ matches'[m].status = matches[m].status
       \/ matches[m].status = "waiting" /\ matches'[m].status = "active"
       \/ matches[m].status = "active"
            /\ matches'[m].status \in {"completed", "timeout"}

C11_Lifecycle == [][C11_StatusStep]_vars

\* endMatch has just been called for a match the timer had already timed out
C11_Witness ==
  \E m \in DOMAIN matches :
    /\ matches[m].status = "timeout"
    /\ lastCall.op = "endMatch" /\ lastCall.a = m

\* C13: a wallet update that is rejected (unknown user, or the balance would
\* become negative) returns failure and leaves the balances and the
\* transactions as they were.
C13_WalletStep ==
  \A u \in UserArgs :
    (lastCall'.op = "updateUserWallet" /\ lastCall'.a = u
       /\ (u \notin DOMAIN users \/ users[u].walletBalance + lastCall'.b < 0)) =>
      /\ lastCall'.ret = "false"
      /\ UNCHANGED <<users, transactions, developerWalletBalance, storage>>

C13_RejectedUpdateChangesNothing == [][C13_WalletStep]_vars

\* a withdrawal of more than the whole balance has just been refused
C13_Witness ==
  \E u \in DOMAIN users :
    /\ lastCall = Called("updateUserWallet", u, -105, "false")
    /\ users[u].walletBalance = STARTING_BONUS
    /\ transactions = <<>>

\* C18: when a match's timer callback runs after the match has left active,
\* it changes nothing: matches, balances, the developer wallet, player stats
\* and the transactions stay as they were.
C18_StaleTimerStep ==
  \A m \in DOMAIN matches :
    (lastCall'.op = "timer" /\ lastCall'.a = m /\ m \in timers
       /\ matches[m].status # "active") =>
      UNCHANGED <<users, matches, transactions, developerWalletBalance, storage>>

C18_StaleTimerIsNoOp == [][C18_StaleTimerStep]_vars

\* the timer callback has just run for a match endMatch had completed
C18_Witness ==
  \E m \in DOMAIN matches :
    /\ matches[m].status = "completed"
    /\ lastCall = Called("timer", m, NoId, "void")
    /\ m \notin timers

\* C20: in every state each match has an empty player2Id exactly when it is
\* waiting; a non-empty player2Id names an existing user other than
\* player1Id; startTime is set exactly when the match has left waiting; and
\* winnerId is set only when the match is completed.
C20_MatchWellFormed ==
  \A m \in DOMAIN matches :
    /\ (matches[m].player2Id = NoId) <=> (matches[m].status = "waiting")
    /\ matches[m].player2Id # NoId =>
         /\ matches[m].player2Id \in DOMAIN users
         /\ matches[m].player2Id # matches[m].player1Id
    /\ (matches[m].startTime # NoDate) <=> (matches[m].status # "waiting")
    /\ matches[m].winnerId # NoId => matches[m].status = "completed"

\* a completed match with a winner next to a match still waiting
C20_Witness ==
  \E m, w \in DOMAIN matches :
    /\ matches[m].status = "completed" /\ matches[m].winnerId # NoId
    /\ matches[m].player2Id # NoId /\ matches[m].startTime # NoDate
    /\ matches[w].status = "waiting" /\ matches[w].player2Id = NoId

\* C12: every match that becomes active eventually is completed or timeout,
\* given that the timer callback scheduled at join eventually fires, whether
\* or not endMatch is ever called.
C12_ActiveEventuallyEnds ==
  \A m \in MatchIds :
    (m \in DOMAIN matches /\ matches[m].status = "active")
      ~> (m \in DOMAIN matches /\ matches[m].status \in {"completed", "timeout"})

\* a match that no endMatch call touched has been ended by its timer
C12_Witness ==
  \E m \in DOMAIN matches :
    /\ matches[m].status = "timeout"
    /\ <<m, "player">> \notin endCalled /\ <<m, "other">> \notin endCalled
    /\ m \notin timers

TxOfUser(userId) == {k \in DOMAIN transactions : transactions[k].userId = userId}
TxOfType(type) == {k \in DOMAIN transactions : transactions[k].type = type}

\* C14: every balance change has its transaction: each transaction has
\* balanceAfter = balanceBefore + amount, each user's walletBalance is the
\* starting bonus 100 plus the sum of the user's transaction amounts, and the
\* developer wallet balance is the sum of the server_fee transactions.
C14_BalancesFollowTransactions ==
  /\ \A k \in DOMAIN transactions :
       transactions[k].balanceAfter =
         transactions[k].balanceBefore + transactions[k].amount
  /\ \A u \in DOMAIN users :
       users[u].walletBalance = STARTING_BONUS + SumAmounts(TxOfUser(u))
  /\ developerWalletBalance = SumAmounts(TxOfType("server_fee"))

\* C17: every resolution of an active match, with or without a winner,
\* increases gamesPlayed of both players by exactly one; every user with
\* gamesPlayed > 0 has winRate = gamesWon / gamesPlayed and
\* gamesWon <= gamesPlayed.
C17_ResolutionStep ==
  \A m \in DOMAIN matches :
    (matches[m].status = "active"
       /\ matches'[m].status \in {"completed", "timeout"}) =>
      \A p \in {matches[m].player1Id, matches[m].player2Id} :
        users'[p].gamesPlayed = users[p].gamesPlayed + 1

C17_StatsDerived ==
  \A u \in DOMAIN users :
    users[u].gamesPlayed > 0 =>
      /\ users[u].winRate =
           [won |-> users[u].gamesWon, played |-> users[u].gamesPlayed]
      /\ users[u].gamesWon <= users[u].gamesPlayed

C17_GamesPlayedCounted == [][C17_ResolutionStep]_vars /\ []C17_StatsDerived

\* what the program holds in memory
InMemory == <<users, matches, transactions, developerWalletBalance>>

\* C19: after every step that changes the state (createUser, a successful
\* updateUserWallet, createMatch, joinMatch, endMatch, the timer callback
\* that moves a match to timeout) the persisted snapshot is that of the
\* in-memory state.
C19_SavedStep ==
  InMemory' # InMemory => storage' = (saveToStorage(Mem).storage)'

C19_SnapshotFollowsState == [][C19_SavedStep]_vars

\* a manager constructed over the storage of s, before its constructor loads
Fresh(s) == [s EXCEPT !.users = <<>>, !.matches = <<>>, !.transactions = <<>>,
                      !.developerWalletBalance = 0]

Reloaded == loadFromStorage(Fresh(saveToStorage(Mem)))

\* C16: in any reachable state, saveToStorage followed by loadFromStorage
\* reproduces identical users, matches and transactions, every date field
\* being a date again, and an identical developer wallet balance.
C16_RoundTrip ==
  /\ Reloaded.users = users
  /\ Reloaded.matches = matches
  /\ Reloaded.transactions = transactions
  /\ Reloaded.developerWalletBalance = developerWalletBalance

\* a waiting match (no dates), a completed one (both dates), transactions
\* and a non-zero developer wallet, all reproduced by the reload
C16_Witness ==
  /\ \E m, w \in DOMAIN matches :
       /\ matches[m].endTime # NoDate /\ matches[m].startTime # NoDate
       /\ matches[w].startTime = NoDate /\ matches[w].endTime = NoDate
       /\ Reloaded.matches[m] = matches[m] /\ Reloaded.matches[w] = matches[w]
  /\ transactions # <<>>
  /\ developerWalletBalance > 0
  /\ Reloaded.developerWalletBalance = developerWalletBalance

Contacts == DEVELOPER_CONTACTS \cup {"", "Deshpandekirti641@gmail.com", "9876543210"}

\* C15: for a contact that is not a developer contact, getAdminStats returns
\* null and getDeveloperWalletBalance returns 0 in every reachable state,
\* whatever the users, matches, transactions and developer wallet are.
C15_NothingForOthers ==
  \A c \in Contacts \ DEVELOPER_CONTACTS :
    /\ getAdminStats(Mem, c) = <<>>
    /\ getDeveloperWalletBalance(Mem, c) = 0

\* the developer wallet holds a fee, a developer contact sees it and the
\* statistics, another contact sees neither
C15_Witness ==
  /\ developerWalletBalance = SERVER_FEE
  /\ \A c \in DEVELOPER_CONTACTS :
       /\ getDeveloperWalletBalance(Mem, c) = SERVER_FEE
       /\ getAdminStats(Mem, c) # <<>>
       /\ getAdminStats(Mem, c)[1].totalRevenue = SERVER_FEE
       /\ getAdminStats(Mem, c)[1].completedMatches = 1
  /\ getDeveloperWalletBalance(Mem, "9876543210") = 0
  /\ getAdminStats(Mem, "9876543210") = <<>>

\* C21: a waiting match leaves waiting only through a successful joinMatch;
\* endMatch and timers never affect it, no match is ever cancelled, no timer
\* is scheduled for a waiting match, and while it is waiting the only
\* transaction of the match is player1's entry fee: nothing is refunded,
\* paid out or credited to the developer wallet for it.
C21_WaitingStep ==
  \A m \in DOMAIN matches :
    (matches[m].status = "waiting" /\ matches'[m] # matches[m]) =>
      /\ lastCall'.op = "joinMatch" /\ lastCall'.a = m /\ lastCall'.ret = "true"
      /\ matches'[m].status = "active"

C21_WaitingState ==
  \A m \in DOMAIN matches :
    /\ matches[m].status # "cancelled"
    /\ matches[m].status = "waiting" =>
         /\ m \notin timers
         /\ FeeCredits(m) = 0
         /\ \A k \in DOMAIN transactions :
              transactions[k].matchId = m =>
                /\ transactions[k].type = "entry_fee"
                /\ transactions[k].userId = matches[m].player1Id
                /\ transactions[k].amount = 0 - ENTRY_FEE
         /\ Cardinality(TxOf(m, "entry_fee")) = 1

C21_WaitingOnlyJoins == [][C21_WaitingStep]_vars /\ []C21_WaitingState

\* endMatch naming player1 as the winner has just been called for a waiting
\* match, which is still waiting with its entry fee kept
C21_Witness ==
  \E m \in DOMAIN matches :
    /\ matches[m].status = "waiting"
    /\ lastCall = Called("endMatch", m, matches[m].player1Id, "void")
    /\ users[matches[m].player1Id].walletBalance = STARTING_BONUS - ENTRY_FEE
    /\ developerWalletBalance = 0

\* the money held: every user's wallet and the developer wallet
TotalMoney ==
  SumOver([u \in DOMAIN users |-> users[u].walletBalance], DOMAIN users)
    + developerWalletBalance

\* C22: match play never creates money: as long as no deposit or withdrawal
\* was made from outside, the sum of all wallet balances plus the developer
\* wallet is at most 100 times the number of users.
C22_NoMoneyCreated ==
  (TxOfType("deposit") = {} /\ TxOfType("withdrawal") = {}) =>
    TotalMoney <= STARTING_BONUS * Cardinality(DOMAIN users)

\* a match was paid out to one of its players and the fee credited, with no
\* deposit or withdrawal: all the money is still there, and no more
C22_Witness ==
  /\ TxOfType("deposit") = {} /\ TxOfType("withdrawal") = {}
  /\ TxOfType("winner_payout") # {}
  /\ developerWalletBalance = SERVER_FEE
  /\ TotalMoney = STARTING_BONUS * Cardinality(DOMAIN users)

\* C23: verifyOTP(contact, code) returns true only if code is the code of the
\* most recent generateOTP(contact) and its 5-minute expiry has not passed;
\* an attempt after the expiry returns false and removes the entry; and
\* isVerified(contact) is true only if a verifyOTP for the contact's current
\* entry returned true.
C23_VerifyStep ==
  \A c \in OtpContacts, code \in TriedCodes :
    (lastCall'.op = "verifyOTP" /\ lastCall'.a = c /\ lastCall'.b = code) =>
      /\ lastCall'.ret = "true" =>
           /\ c \in DOMAIN issued
           /\ code = issued[c].code
           /\ now <= issued[c].at + OTP_TTL
      /\ (c \in DOMAIN issued /\ now > issued[c].at + OTP_TTL) =>
           /\ lastCall'.ret = "false"
           /\ c \notin DOMAIN otps'

C23_VerifiedState ==
  \A c \in OtpContacts :
    isVerified(otps, c) =>
      c \in DOMAIN issued /\ <<c, issued[c].n>> \in okGen

C23_OtpOnlyLatestUnexpired == [][C23_VerifyStep]_vars /\ []C23_VerifiedState

\* a contact's latest code was accepted once; tried again after its expiry it
\* has just been refused and the entry removed
C23_Witness ==
  \E c \in DOMAIN issued :
    /\ lastCall = Called("verifyOTP", c, issued[c].code, "false")
    /\ <<c, issued[c].n>> \in okGen
    /\ now > issued[c].at + OTP_TTL
    /\ c \notin DOMAIN otps
    /\ ~isVerified(otps, c)

====
